---- MODULE Spec2Model ----
(***************************************************************************)
(* The bounded backtracking matcher of synthet-ic/repr (src/backtrack.rs)  *)
(* over a compiled instruction program (src/regex/prog.rs).                *)
(*                                                                         *)
(* One engine activation is the record b: the fields of the Bounded        *)
(* struct (prog, context, matches, m = the Cache), the locals of exec_,    *)
(* backtrack and step, and the control position pc.  Every operation of    *)
(* the engine is an operator from engine records to engine records, and    *)
(* every action of the specification applies one of them.                  *)
(*                                                                         *)
(* Instruction indices and input positions are 0-based as in the code;     *)
(* TLA+ sequences are 1-based, hence the "+ 1" at every sequence access.   *)
(***************************************************************************)
EXTENDS Integers, Sequences, FiniteSets, TLC

\* ------------------------------------------------------------------ bounds

\* Longest input text drawn.
MaxLen == 2

\* Longest output buffer (the `matches: &mut [bool]` slice) drawn.
MaxOut == 2

\* Longest history kept of one call in the specification with fairness.
MaxSteps == 100

\* ------------------------------------------------------- program constants

\* backtrack.rs:36  const BIT_SIZE: usize = 32
BIT_SIZE == 32

\* backtrack.rs:37  const MAX_SIZE_BYTES: usize = 256 * (1 << 10)
MAX_SIZE_BYTES == 256 * 1024

\* unicode.rs:13  char::MAX = '\u{10FFFF}'
CharMax == 1114111

\* unicode.rs:117  the absent character is u32::MAX, a value above every
\* char.  TLC's integers end at 2^31 - 1, so the model takes the least value
\* above char::MAX; only "is no char and lies above every interval" is used.
NoChar == CharMax + 1

\* ------------------------------------------------------------------- usize

\* A usize is as wide as the target's pointers and does not fit TLC's
\* integers, so a natural number is written as the sequence of its base-256
\* digits, the least significant first (trailing zeros allowed).
LimbBase == 256

Limb(x, i) == IF i <= Len(x) THEN x[i] ELSE 0

\* The digits of the sums cols[i] of weight 256^(i-1), carries propagated.
RECURSIVE Carried(_, _, _)
Carried(cols, i, c) ==
    IF i > Len(cols)
    THEN IF c = 0 THEN <<>>
         ELSE <<c % LimbBase>> \o Carried(cols, i, c \div LimbBase)
    ELSE <<(cols[i] + c) % LimbBase>>
             \o Carried(cols, i + 1, (cols[i] + c) \div LimbBase)

\* The number n < 2^31 as digits.
Nat256(n) == Carried(<<n>>, 1, 0)

\* 2^k as digits.
Pow2(k) == [i \in 1..(k \div 8 + 1) |->
               IF i = k \div 8 + 1 THEN 2 ^ (k % 8) ELSE 0]

NatAdd(x, y) ==
    Carried([i \in 1..(IF Len(x) > Len(y) THEN Len(x) ELSE Len(y)) |->
                Limb(x, i) + Limb(y, i)], 1, 0)

RECURSIVE NatMulColumn(_, _, _, _)
NatMulColumn(x, y, k, i) ==
    IF i > k THEN 0
    ELSE Limb(x, i) * Limb(y, k - i + 1) + NatMulColumn(x, y, k, i + 1)

NatMul(x, y) ==
    Carried([k \in 1..(Len(x) + Len(y)) |-> NatMulColumn(x, y, k, 1)], 1, 0)

\* x divided by the small number d, rounding down: long division from the
\* most significant digit; r is the remainder carried into digit i.
RECURSIVE NatDivFrom(_, _, _, _)
NatDivFrom(x, d, i, r) ==
    IF i = 0 THEN <<>>
    ELSE NatDivFrom(x, d, i - 1, (r * LimbBase + x[i]) % d)
             \o <<(r * LimbBase + x[i]) \div d>>

NatDiv(x, d) == NatDivFrom(x, d, Len(x), 0)

RECURSIVE NatLeFrom(_, _, _)
NatLeFrom(x, y, i) ==
    IF i = 0 THEN TRUE
    ELSE IF Limb(x, i) # Limb(y, i) THEN Limb(x, i) < Limb(y, i)
    ELSE NatLeFrom(x, y, i - 1)

NatLe(x, y) == NatLeFrom(x, y, IF Len(x) > Len(y) THEN Len(x) ELSE Len(y))

NatEq(x, y) == NatLe(x, y) /\ NatLe(y, x)

\* The builds of the crate: the target's pointer width, and whether integer
\* overflow panics (debug) or wraps (release).
Builds == [bits : {32, 64}, overflow_checks : BOOLEAN]

\* usize::MAX of a target.
UsizeMax(bits) == [i \in 1..(bits \div 8) |-> LimbBase - 1]

IsUsize(x, bits) == NatLe(x, UsizeMax(bits))

\* The value a usize operation leaves when its exact result is x: x modulo
\* 2^bits, and whether that differs from x.
Wrapped(x, bits) ==
    [val |-> [i \in 1..(bits \div 8) |-> Limb(x, i)],
     overflow |-> ~IsUsize(x, bits)]

\* ------------------------------------------------------------- should_exec

\* should_exec without the division by BIT_SIZE: four bytes for every state.
should_exec_unpacked(num_insts, text_len, build) ==
    LET w == build.bits
        t1 == Wrapped(NatAdd(text_len, Nat256(1)), w)
        p == Wrapped(NatMul(num_insts, t1.val), w)
        size == Wrapped(NatMul(p.val, Nat256(4)), w)
        overflow == t1.overflow \/ p.overflow \/ size.overflow
    IN  IF overflow /\ build.overflow_checks THEN "panic"
        ELSE IF NatLe(size.val, Nat256(MAX_SIZE_BYTES)) THEN "true"
        ELSE "false"

\* backtrack.rs:41-50  should_exec: "true", "false", or "panic" where an
\* operation overflows in a build that checks for it.  The operations in
\* the order the expression evaluates them: text_len + 1, num_insts * _,
\* _ + BIT_SIZE, _ - 1, _ / BIT_SIZE, _ * 4.
should_exec(num_insts, text_len, build) ==
    LET w == build.bits
        t1 == Wrapped(NatAdd(text_len, Nat256(1)), w)
        p == Wrapped(NatMul(num_insts, t1.val), w)
        s == Wrapped(NatAdd(p.val, Nat256(BIT_SIZE)), w)
        m == [val |-> Wrapped(NatAdd(s.val, UsizeMax(w)), w).val,
              overflow |-> NatEq(s.val, Nat256(0))]
        q == NatDiv(m.val, BIT_SIZE)
        size == Wrapped(NatMul(q, Nat256(4)), w)
        overflow == \/ t1.overflow \/ p.overflow \/ s.overflow
                    \/ m.overflow \/ size.overflow
    IN  IF overflow /\ build.overflow_checks THEN "panic"
        ELSE IF NatLe(size.val, Nat256(MAX_SIZE_BYTES)) THEN "true"
        ELSE "false"

\* backtrack.rs:48  the word count inside should_exec's size, before the
\* multiplication by 4: (num_insts * (text_len + 1) + BIT_SIZE - 1) /
\* BIT_SIZE in usize arithmetic.
admission_words(num_insts, text_len, build) ==
    LET w == build.bits
        t1 == Wrapped(NatAdd(text_len, Nat256(1)), w)
        p == Wrapped(NatMul(num_insts, t1.val), w)
        s == Wrapped(NatAdd(p.val, Nat256(BIT_SIZE)), w)
        m == Wrapped(NatAdd(s.val, UsizeMax(w)), w).val
    IN  NatDiv(m, BIT_SIZE)

\* The word count of clear rounded down, not up.
visited_len_floor(prog_len, context_len, build) ==
    LET w == build.bits
        t1 == Wrapped(NatAdd(context_len, Nat256(1)), w)
        p == Wrapped(NatMul(prog_len, t1.val), w)
    IN  [panic |-> (t1.overflow \/ p.overflow) /\ build.overflow_checks,
         val |-> NatDiv(p.val, BIT_SIZE)]

\* backtrack.rs:121-123  visited_len in clear, in usize arithmetic:
\* (prog.len() * (context.len() + 1) + BIT_SIZE - 1) / BIT_SIZE, with a
\* panic where an operation overflows in a build that checks for it.
visited_len_usize(prog_len, context_len, build) ==
    LET w == build.bits
        t1 == Wrapped(NatAdd(context_len, Nat256(1)), w)
        p == Wrapped(NatMul(prog_len, t1.val), w)
        s == Wrapped(NatAdd(p.val, Nat256(BIT_SIZE)), w)
        m == [val |-> Wrapped(NatAdd(s.val, UsizeMax(w)), w).val,
              overflow |-> NatEq(s.val, Nat256(0))]
        overflow == t1.overflow \/ p.overflow \/ s.overflow \/ m.overflow
    IN  [panic |-> overflow /\ build.overflow_checks,
         val |-> NatDiv(m.val, BIT_SIZE)]

\* The characters the input texts are drawn from: 'a' and 'b'.
Alphabet == {97, 98}

\* ------------------------------------------------------------ instructions

\* prog.rs:216-237  enum Inst
Match(slot) == [op |-> "Match", slot |-> slot]
Split(goto1, goto2) == [op |-> "Split", goto1 |-> goto1, goto2 |-> goto2]
Zero(goto, look) == [op |-> "Zero", goto |-> goto, look |-> look]
One(goto, c) == [op |-> "One", goto |-> goto, c |-> c]
Interval(goto, lo, hi) == [op |-> "Interval", goto |-> goto, lo |-> lo, hi |-> hi]

\* prog.rs:20-23  Program::matches: the indices of the Match instructions.
RECURSIVE MatchPtrs(_, _)
MatchPtrs(insts, i) ==
    IF i > Len(insts) THEN <<>>
    ELSE IF insts[i].op = "Match" THEN <<i - 1>> \o MatchPtrs(insts, i + 1)
    ELSE MatchPtrs(insts, i + 1)

\* prog.rs:17-61  struct Program (the fields the backtracker reads).
\* prefixes is the set of literals of the LiteralSearcher; {} is the empty
\* searcher.
Program(insts, start, anchored, prefixes) ==
    [insts |-> insts, matches |-> MatchPtrs(insts, 1), start |-> start,
     is_anchored_start |-> anchored, prefixes |-> prefixes]

\* prog.rs:128-135  Deref to [Inst]: prog[ip] and prog.len()
InstAt(prog, ip) == prog.insts[ip + 1]
ProgLen(prog) == Len(prog.insts)

\* prog.rs:292-302  InstInterval::matches (backtrack.rs:224 interval.has)
IntervalHas(inst, c) ==
    IF c < inst.lo THEN FALSE
    ELSE IF c <= inst.hi THEN TRUE
    ELSE FALSE

\* ------------------------------------------------- Context and searcher

\* The Context's positional access (module `context`): context[i] is the
\* input at position i, its position together with the element there, or
\* the absent character at and beyond the end of the text.
ContextIndex(context, i) ==
    [pos |-> i,
     c |-> IF i >= 0 /\ i < Len(context) THEN context[i + 1] ELSE NoChar]

\* is_empty_match for which an empty text has no start.
is_empty_match_needs_text(context, at, look) ==
    CASE look = "StartText" -> at = 0 /\ Len(context) > 0
      [] look = "EndText" -> at = Len(context)

\* unicode.rs:50-80  Context::is_empty_match, the text anchors
is_empty_match(context, at, look) ==
    CASE look = "StartText" -> at = 0
      [] look = "EndText" -> at = Len(context)

\* The literal `lit` occurs in `text` at 0-based offset i.
OccursAt(text, lit, i) ==
    /\ i + Len(lit) <= Len(text)
    /\ \A j \in 1..Len(lit) : text[i + j] = lit[j]

\* LiteralSearcher::find on the tail text[at..]: the offset within the tail
\* of the leftmost place where one of the literals starts, <<>> for None.
LiteralFind(prefixes, text, at) ==
    LET found == {s \in 0..(Len(text) - at) :
                     \E lit \in prefixes : OccursAt(text, lit, at + s)}
    IN  IF found = {} THEN <<>>
        ELSE <<CHOOSE s \in found : \A t \in found : s <= t>>

\* unicode.rs:83-87  Context::prefix_at
\*   prefixes.find(&self[at..]).map(|(s, _)| self[at + s])
prefix_at(context, prefixes, at) ==
    LET f == LiteralFind(prefixes, context, at)
    IN  IF f = <<>> THEN <<>> ELSE <<ContextIndex(context, at + f[1]).pos>>

\* ------------------------------------------------------------------ cache

\* A u32 word of the visited bitset is the set of its one-bits (bit 0 the
\* least significant); the zero word is {}.
ZeroWord == {}

\* backtrack.rs:71-73  Cache::new
CacheNew == [jobs |-> <<>>, visited |-> <<>>]

\* backtrack.rs:83  struct Job
Job(ip, at) == [ip |-> ip, at |-> at]

\* backtrack.rs:248-253  usize_to_u32 on a usize given by its one-bits:
\* the value fits iff no bit at or above 32 is set.
usize_to_u32(n) == [fits |-> \A bit \in n : bit < 32, val |-> n]

\* backtrack.rs:121-123  the number of words clear asks for
visited_len(prog, context) ==
    (ProgLen(prog) * (Len(context) + 1) + BIT_SIZE - 1) \div BIT_SIZE

\* clear that does not zero the words kept from the last call.
clear_keeps_bits(m, prog, context) ==
    LET want == visited_len(prog, context)
        truncated == IF Len(m.visited) > want
                     THEN SubSeq(m.visited, 1, want) ELSE m.visited
        grown == IF want > Len(truncated)
                 THEN truncated
                      \o [i \in 1..(want - Len(truncated)) |-> ZeroWord]
                 ELSE truncated
    IN  [jobs |-> <<>>, visited |-> grown]

\* clear that resets the bitset and leaves the job stack as it finds it.
clear_keeps_jobs(m, prog, context) ==
    LET want == visited_len(prog, context)
        truncated == IF Len(m.visited) > want
                     THEN SubSeq(m.visited, 1, want) ELSE m.visited
        zeroed == [i \in 1..Len(truncated) |-> ZeroWord]
        grown == IF want > Len(zeroed)
                 THEN zeroed \o [i \in 1..(want - Len(zeroed)) |-> ZeroWord]
                 ELSE zeroed
    IN  [jobs |-> m.jobs, visited |-> grown]

\* clear without the truncate: a bitset longer than needed stays as long.
clear_never_truncates(m, prog, context) ==
    LET want == visited_len(prog, context)
        zeroed == [i \in 1..Len(m.visited) |-> ZeroWord]
        grown == IF want > Len(zeroed)
                 THEN zeroed \o [i \in 1..(want - Len(zeroed)) |-> ZeroWord]
                 ELSE zeroed
    IN  [jobs |-> <<>>, visited |-> grown]

\* backtrack.rs:107-135  Bounded::clear, on the cache m
clear(m, prog, context) ==
    LET want == visited_len(prog, context)
        truncated == IF Len(m.visited) > want
                     THEN SubSeq(m.visited, 1, want) ELSE m.visited
        zeroed == [i \in 1..Len(truncated) |-> ZeroWord]
        grown == IF want > Len(zeroed)
                 THEN zeroed \o [i \in 1..(want - Len(zeroed)) |-> ZeroWord]
                 ELSE zeroed
    IN  [jobs |-> <<>>, visited |-> grown]

\* The key with the text length, not length + 1, as the row stride.
visited_key_stride(context, ip, at) == ip * Len(context) + at

\* backtrack.rs:236  the key of state (ip, at)
visited_key(context, ip, at) == ip * (Len(context) + 1) + at

\* has_visited that tests the bit and never sets it.
has_visited_unmarked(visited, context, ip, at) ==
    LET k == visited_key(context, ip, at)
    IN  [ret |-> visited[(k \div BIT_SIZE) + 1] \cap {k % BIT_SIZE} # {},
         visited |-> visited]

\* has_visited that sets the bit and always answers "not visited".
has_visited_blind(visited, context, ip, at) ==
    LET k == visited_key(context, ip, at)
    IN  [ret |-> FALSE,
         visited |-> [visited EXCEPT ![(k \div BIT_SIZE) + 1] =
                                         @ \cup {k % BIT_SIZE}]]

\* backtrack.rs:235-245  Bounded::has_visited: the value returned and the
\* bitset afterwards.  k2 = 1 << (k & 31) is the word with the one bit k % 32.
has_visited(visited, context, ip, at) ==
    LET k == visited_key(context, ip, at)
        k1 == k \div BIT_SIZE
        k2 == usize_to_u32({k % BIT_SIZE}).val
    IN  IF visited[k1 + 1] \cap k2 = {}
        THEN [ret |-> FALSE,
              visited |-> [visited EXCEPT ![k1 + 1] = @ \cup k2]]
        ELSE [ret |-> TRUE, visited |-> visited]

\* backtrack.rs:236-238  the head of has_visited on operands of any size,
\* in a given build: the key k in usize, the word index k1 and the mask k2
\* handed to usize_to_u32, and whether the call panics (an overflow in a
\* build that checks for it, or usize_to_u32).
visited_probe(ip, len, at, build) ==
    LET w == build.bits
        row == Wrapped(NatAdd(len, Nat256(1)), w)
        prod == Wrapped(NatMul(ip, row.val), w)
        k == Wrapped(NatAdd(prod.val, at), w)
        k2 == usize_to_u32({Limb(k.val, 1) % BIT_SIZE})
        overflow == row.overflow \/ prod.overflow \/ k.overflow
    IN  [panic |-> (overflow /\ build.overflow_checks) \/ ~k2.fits,
         k |-> k.val, k1 |-> NatDiv(k.val, BIT_SIZE), k2 |-> k2.val]

\* ----------------------------------------------------------------- engine

\* prog.rs:66-80  Program::new, the empty program an idle engine holds
NoProgram == Program(<<>>, 0, FALSE, {})

\* backtrack.rs:54-59  struct Bounded with the locals of exec_ (at, end,
\* matched), backtrack (bt_matched) and step (ip, sat), the control position
\* pc and the value exec returned (ret).  Between calls only the cache m lives.
Idle(m) ==
    [prog |-> NoProgram, context |-> <<>>, matches |-> <<>>, m |-> m,
     at |-> 0, end |-> 0, matched |-> FALSE, bt_matched |-> FALSE,
     ip |-> 0, sat |-> 0, pc |-> "idle", ret |-> FALSE]

\* backtrack.rs:156, 163, 144  exec_ returns r
exec_return(b, r) ==
    [b EXCEPT !.pc = "done", !.ret = r, !.ip = 0, !.sat = 0]

\* backtrack(at) that zeroes the bitset before it pushes the first job.
backtrack_zeroes_bits(b, at) ==
    [b EXCEPT !.bt_matched = FALSE,
              !.m.jobs = Append(@, Job(0, at)),
              !.m.visited = [i \in 1..Len(@) |-> ZeroWord],
              !.ip = 0, !.sat = 0,
              !.pc = "backtrack"]

\* backtrack.rs:167-173  backtrack(at) up to its loop: the first job
backtrack(b, at) ==
    [b EXCEPT !.bt_matched = FALSE,
              !.m.jobs = Append(@, Job(0, at)),
              !.ip = 0, !.sat = 0,
              !.pc = "backtrack"]

\* exec_ after backtrack(at) returned r, going on to the next position after
\* a single-pattern match.
backtrack_returned_scans_on(b, r) ==
    IF b.prog.is_anchored_start THEN exec_return(b, r)
    ELSE LET matched == r \/ b.matched IN
         IF b.at >= b.end THEN exec_return(b, matched)
         ELSE [b EXCEPT !.matched = matched,
                        !.at = ContextIndex(b.context, b.at + 1).pos,
                        !.ip = 0, !.sat = 0,
                        !.pc = "loop"]

\* exec_ after backtrack(at) returned r, leaving the loop one position
\* before end.
backtrack_returned_stops_short(b, r) ==
    IF b.prog.is_anchored_start THEN exec_return(b, r)
    ELSE LET matched == r \/ b.matched IN
         IF matched /\ Len(b.prog.matches) = 1 THEN exec_return(b, TRUE)
         ELSE IF b.at + 1 >= b.end THEN exec_return(b, matched)
         ELSE [b EXCEPT !.matched = matched,
                        !.at = ContextIndex(b.context, b.at + 1).pos,
                        !.ip = 0, !.sat = 0,
                        !.pc = "loop"]

\* exec_ after backtrack(at) returned r, returning at the first match
\* whatever the number of patterns.
backtrack_returned_any_match(b, r) ==
    IF b.prog.is_anchored_start THEN exec_return(b, r)
    ELSE LET matched == r \/ b.matched IN
         IF matched THEN exec_return(b, TRUE)
         ELSE IF b.at >= b.end THEN exec_return(b, matched)
         ELSE [b EXCEPT !.matched = matched,
                        !.at = ContextIndex(b.context, b.at + 1).pos,
                        !.ip = 0, !.sat = 0,
                        !.pc = "loop"]

\* backtrack.rs:144 and 154-161  exec_ after backtrack(at) returned r
backtrack_returned(b, r) ==
    IF b.prog.is_anchored_start THEN exec_return(b, r)
    ELSE LET matched == r \/ b.matched IN
         IF matched /\ Len(b.prog.matches) = 1 THEN exec_return(b, TRUE)
         ELSE IF b.at >= b.end THEN exec_return(b, matched)
         ELSE [b EXCEPT !.matched = matched,
                        !.at = ContextIndex(b.context, b.at + 1).pos,
                        !.ip = 0, !.sat = 0,
                        !.pc = "loop"]

\* Bounded::exec and the head of exec_ with no test of is_anchored_start.
exec_always_scans(m, prog, matches, context, start, end) ==
    [prog |-> prog, context |-> context, matches |-> matches,
     m |-> clear(m, prog, context),
     at |-> ContextIndex(context, start).pos, end |-> end,
     matched |-> FALSE, bt_matched |-> FALSE, ip |-> 0, sat |-> 0,
     pc |-> "loop", ret |-> FALSE]

\* backtrack.rs:90-103 and 139-146  Bounded::exec and the head of exec_
exec(m, prog, matches, context, start, end) ==
    LET at == ContextIndex(context, start).pos
        b == [prog |-> prog, context |-> context, matches |-> matches,
              m |-> clear(m, prog, context),
              at |-> at, end |-> end, matched |-> FALSE,
              bt_matched |-> FALSE, ip |-> 0, sat |-> 0,
              pc |-> "loop", ret |-> FALSE]
    IN  IF prog.is_anchored_start THEN backtrack(b, at) ELSE b

\* One pass of the scan loop that returns false when the searcher finds no
\* further literal, whatever matched before.
exec_loop_forgets_matched(b) ==
    IF b.prog.prefixes # {}
    THEN LET p == prefix_at(b.context, b.prog.prefixes, b.at) IN
         IF p = <<>> THEN exec_return(b, FALSE)
         ELSE backtrack([b EXCEPT !.at = p[1]], p[1])
    ELSE backtrack(b, b.at)

\* backtrack.rs:147-154  one pass of the scan loop up to the backtrack call
exec_loop(b) ==
    IF b.prog.prefixes # {}
    THEN LET p == prefix_at(b.context, b.prog.prefixes, b.at) IN
         IF p = <<>> THEN exec_return(b, b.matched)
         ELSE backtrack([b EXCEPT !.at = p[1]], p[1])
    ELSE backtrack(b, b.at)

\* backtrack.rs:174  while let Some(job) = jobs.pop(): a job is popped
backtrack_pop(b) ==
    LET job == b.m.jobs[Len(b.m.jobs)] IN
    [b EXCEPT !.m.jobs = SubSeq(@, 1, Len(@) - 1),
              !.ip = job.ip, !.sat = job.at, !.pc = "step"]

\* backtrack.rs:174 and 185  the stack is empty: backtrack returns matched
backtrack_exit(b) == backtrack_returned(b, b.bt_matched)

\* backtrack that returns true as soon as a step signals a match, for a
\* regex set as well.
step_returned_first_match(b, r) ==
    IF r THEN backtrack_returned(b, TRUE)
    ELSE [b EXCEPT !.ip = 0, !.sat = 0, !.pc = "backtrack"]

\* backtrack.rs:175-183  backtrack after step returned r
step_returned(b, r) ==
    IF r
    THEN IF Len(b.prog.matches) = 1 THEN backtrack_returned(b, TRUE)
         ELSE [b EXCEPT !.bt_matched = TRUE, !.ip = 0, !.sat = 0,
                        !.pc = "backtrack"]
    ELSE [b EXCEPT !.ip = 0, !.sat = 0, !.pc = "backtrack"]

\* step on a Match that signals the match only when its slot lies inside
\* the buffer.
step_Match_inside_only(b, inst) ==
    IF inst.slot < Len(b.matches)
    THEN step_returned(
             [b EXCEPT !.matches = [@ EXCEPT ![inst.slot + 1] = TRUE]], TRUE)
    ELSE step_returned(b, FALSE)

\* step on a Match that leaves the flag of its slot as it is.
step_Match_no_flag(b, inst) == step_returned(b, TRUE)

\* backtrack.rs:198-203
step_Match(b, inst) ==
    step_returned(
        [b EXCEPT !.matches = IF inst.slot < Len(@)
                              THEN [@ EXCEPT ![inst.slot + 1] = TRUE]
                              ELSE @],
        TRUE)

\* step on a Split that pushes goto1 and goes on with goto2.
step_Split_second_first(b, inst) ==
    [b EXCEPT !.m.jobs = Append(@, Job(inst.goto1, b.sat)),
              !.ip = inst.goto2]

\* step on a Split that pushes both branches before it goes on with goto1.
step_Split_pushes_both(b, inst) ==
    [b EXCEPT !.m.jobs = Append(Append(@, Job(inst.goto2, b.sat)),
                                Job(inst.goto1, b.sat)),
              !.ip = inst.goto1]

\* backtrack.rs:204-207
step_Split(b, inst) ==
    [b EXCEPT !.m.jobs = Append(@, Job(inst.goto2, b.sat)),
              !.ip = inst.goto1]

\* step on a Zero that moves one position on when its assertion holds.
step_Zero_consumes(b, inst) ==
    IF is_empty_match(b.context, b.sat, inst.look)
    THEN [b EXCEPT !.ip = inst.goto,
                   !.sat = ContextIndex(b.context, b.sat + 1).pos]
    ELSE step_returned(b, FALSE)

\* backtrack.rs:208-214
step_Zero(b, inst) ==
    IF is_empty_match(b.context, b.sat, inst.look)
    THEN [b EXCEPT !.ip = inst.goto]
    ELSE step_returned(b, FALSE)

\* step on a One that takes whatever character is at the position.
step_One_any_char(b, inst) ==
    [b EXCEPT !.ip = inst.goto,
              !.sat = ContextIndex(b.context, b.sat + 1).pos]

\* backtrack.rs:215-222
step_One(b, inst) ==
    IF inst.c = ContextIndex(b.context, b.sat).c
    THEN [b EXCEPT !.ip = inst.goto,
                   !.sat = ContextIndex(b.context, b.sat + 1).pos]
    ELSE step_returned(b, FALSE)

\* step on an Interval that takes every element from its lower end upward.
step_Interval_open_end(b, inst) ==
    IF ContextIndex(b.context, b.sat).c >= inst.lo
    THEN [b EXCEPT !.ip = inst.goto,
                   !.sat = ContextIndex(b.context, b.sat + 1).pos]
    ELSE step_returned(b, FALSE)

\* backtrack.rs:223-230
step_Interval(b, inst) ==
    IF IntervalHas(inst, ContextIndex(b.context, b.sat).c)
    THEN [b EXCEPT !.ip = inst.goto,
                   !.sat = ContextIndex(b.context, b.sat + 1).pos]
    ELSE step_returned(b, FALSE)

\* backtrack.rs:188-233  one pass of step's loop at (ip, sat)
step(b) ==
    LET hv == has_visited(b.m.visited, b.context, b.ip, b.sat)
        b1 == [b EXCEPT !.m.visited = hv.visited]
        inst == InstAt(b.prog, b.ip)
    IN  IF hv.ret THEN step_returned(b1, FALSE)
        ELSE CASE inst.op = "Match" -> step_Match(b1, inst)
               [] inst.op = "Split" -> step_Split(b1, inst)
               [] inst.op = "Zero" -> step_Zero(b1, inst)
               [] inst.op = "One" -> step_One(b1, inst)
               [] inst.op = "Interval" -> step_Interval(b1, inst)

\* --------------------------------------------------------------- programs

\* The programs the engine is run on, as the compiler lays them out
\* (prog.rs:216-237): 97 is 'a', 98 is 'b'.

\* ab
ProgLit == Program(<<One(1, 97), One(2, 98), Match(0)>>, 0, FALSE, {})

\* a|b
ProgAlt ==
    Program(<<Split(1, 2), One(3, 97), One(3, 98), Match(0)>>, 0, FALSE, {})

\* a*
ProgStar == Program(<<Split(1, 2), One(0, 97), Match(0)>>, 0, FALSE, {})

\* a+b
ProgPlus ==
    Program(<<One(1, 97), Split(0, 2), One(3, 98), Match(0)>>, 0, FALSE, {})

\* (a*)*b: a cycle of Splits that consumes no input
ProgEmptyLoop ==
    Program(<<Split(1, 3), Split(2, 0), One(1, 97), One(4, 98), Match(0)>>,
            0, FALSE, {})

\* a Split whose first target is itself
ProgSelfSplit ==
    Program(<<Split(0, 1), One(2, 98), Match(0)>>, 0, FALSE, {})

\* .*?a laid out with the lazy prefix first: the start instruction is 2
ProgLazy ==
    Program(<<Split(2, 1), Interval(0, 97, 98), One(3, 97), Match(0)>>,
            2, FALSE, {})

\* a\z
ProgEnd ==
    Program(<<One(1, 97), Zero(2, "EndText"), Match(0)>>, 0, FALSE, {})

\* b?\z
ProgOptEnd ==
    Program(<<Split(1, 2), One(2, 98), Zero(3, "EndText"), Match(0)>>,
            0, FALSE, {})

\* \Ab|a, unanchored
ProgAltAnchor ==
    Program(<<Split(1, 3), Zero(2, "StartText"), One(4, 98), One(4, 97),
              Match(0)>>, 0, FALSE, {})

\* \A, anchored at the start
ProgStartText == Program(<<Zero(1, "StartText"), Match(0)>>, 0, TRUE, {})

\* \Aa*b, anchored at the start
ProgAnchored ==
    Program(<<Split(1, 2), One(0, 97), One(3, 98), Match(0)>>, 0, TRUE, {})

\* \Ab, anchored at the start, with the literal prefix "b"
ProgAnchoredPrefix ==
    Program(<<One(1, 98), Match(0)>>, 0, TRUE, {<<98>>})

\* b[a-b], with the literal prefix "b"
ProgPrefix ==
    Program(<<One(1, 98), Interval(2, 97, 98), Match(0)>>, 0, FALSE, {<<98>>})

\* b, with the literal prefix "b"
ProgPrefixLit == Program(<<One(1, 98), Match(0)>>, 0, FALSE, {<<98>>})

\* the set {a, ab}
ProgSet ==
    Program(<<Split(1, 3), One(2, 97), Match(0), One(4, 97), One(5, 98),
              Match(1)>>, 0, FALSE, {})

\* the set {a*b, b}: on "ab" the second pattern matches from the later
\* start only
ProgSetLate ==
    Program(<<Split(1, 5), Split(2, 3), One(1, 97), One(4, 98), Match(0),
              One(6, 98), Match(1)>>, 0, FALSE, {})

\* a set whose two patterns share their instructions up to a final Split
ProgSetShared ==
    Program(<<Split(1, 2), One(2, 97), One(3, 98), Split(4, 5), Match(0),
              Match(1)>>, 0, FALSE, {})

\* the set {a, b} with the literal prefixes "a" and "b"
ProgSetPrefix ==
    Program(<<Split(1, 3), One(2, 97), Match(0), One(4, 98), Match(1)>>,
            0, FALSE, {<<97>>, <<98>>})

\* the set {aa, ab, b+}: eleven instructions
ProgSet3 ==
    Program(<<Split(2, 1), Split(5, 8), One(3, 97), One(4, 97), Match(0),
              One(6, 97), One(7, 98), Match(1), One(9, 98), Split(8, 10),
              Match(2)>>, 0, FALSE, {})

\* (\A)*a with the assertion looping back to the Split: a cycle through a
\* Zero that consumes no input
ProgZeroLoop ==
    Program(<<Split(1, 2), Zero(0, "StartText"), One(3, 97), Match(0)>>,
            0, FALSE, {})

\* (a|b)*a(b|\z)(\z)?: eleven instructions, one pattern
ProgLong ==
    Program(<<Split(1, 4), Split(2, 3), One(0, 97), One(0, 98), One(5, 97),
              Split(6, 7), One(8, 98), Zero(8, "EndText"), Split(9, 10),
              Zero(10, "EndText"), Match(0)>>, 0, FALSE, {})

Programs ==
    {ProgLit, ProgAlt, ProgStar, ProgPlus, ProgEmptyLoop, ProgSelfSplit,
     ProgLazy, ProgEnd, ProgOptEnd, ProgAltAnchor, ProgStartText,
     ProgAnchored, ProgAnchoredPrefix, ProgPrefix, ProgPrefixLit, ProgSet,
     ProgSetLate, ProgSetShared, ProgSetPrefix, ProgSet3, ProgLong}

\* The text "xba": a character no program of the catalogue matches, then
\* a match.
TextXba == <<120, 98, 97>>

\* The input texts and the output buffers exec is called with.
Inputs == UNION {[1..n -> Alphabet] : n \in 0..MaxLen} \cup {TextXba}
Buffers == UNION {[1..n -> BOOLEAN] : n \in 0..MaxOut}

\* ------------------------------------------------------------------ state

VARIABLES
    b,      \* the engine: the Bounded activation with its cache
    args,   \* the arguments of the exec call in progress and how the call
            \* found the cache (history)
    trace,  \* what that call has done so far, in order (history)
    se,     \* the should_exec call: its arguments, the build and its result
    key,    \* the key computation of one has_visited call on large operands
    pair    \* two exec runs on one shared program, each with its own cache

vars == <<b, args, trace, se, key, pair>>

\* One entry of the history: a backtrack call at `at`, a job popped, a
\* state found visited, an instruction dispatched (e is its variant and r
\* whether the path goes on), or backtrack returning r; n is the number of
\* jobs on the stack afterwards.
Ev(e, ip, at, r, n) == [e |-> e, ip |-> ip, at |-> at, r |-> r, n |-> n]

NoArgs ==
    [prog |-> NoProgram, context |-> <<>>, matches |-> <<>>,
     start |-> 0, end |-> 0,
     found |-> [jobs |-> FALSE, bits |-> FALSE, words |-> "same"]]

\* How a call on (prog, context) finds the cache m: with jobs on the stack,
\* with bits set, with more or fewer words than clear will ask for.
Found(m, prog, context) ==
    [jobs |-> m.jobs # <<>>,
     bits |-> \E w \in 1..Len(m.visited) : m.visited[w] # ZeroWord,
     words |-> IF Len(m.visited) > visited_len(prog, context) THEN "more"
               ELSE IF Len(m.visited) < visited_len(prog, context) THEN "fewer"
               ELSE "same"]

\* No should_exec call.
NoCall ==
    [pc |-> "none", num_insts |-> <<>>, text_len |-> <<>>,
     build |-> [bits |-> 64, overflow_checks |-> FALSE], ret |-> "none",
     words |-> [panic |-> FALSE, val |-> <<>>]]

\* No key computation.
NoKey ==
    [pc |-> "none", ip |-> <<>>, len |-> <<>>, at |-> <<>>,
     build |-> [bits |-> 64, overflow_checks |-> FALSE],
     ret |-> [panic |-> FALSE, k |-> <<>>, k1 |-> <<>>, k2 |-> {}]]

\* No program shared and no run made.
NoPair ==
    [prog |-> NoProgram, given |-> NoProgram, cache |-> <<>>, call |-> <<>>,
     run |-> <<>>, mixed |-> FALSE]

Init ==
    /\ b = Idle(CacheNew)
    /\ args = NoArgs
    /\ trace = <<>>
    /\ se = NoCall
    /\ key = NoKey
    /\ pair = NoPair

\* What step is about to do at (ip, sat).
Visited(eng) == has_visited(eng.m.visited, eng.context, eng.ip, eng.sat).ret
CurInst(eng) == InstAt(eng.prog, eng.ip)
Dispatches(eng, op) ==
    /\ eng.pc = "step"
    /\ ~Visited(eng)
    /\ CurInst(eng).op = op

\* The entries an action adds when it hands r back from backtrack.
Returned(eng, r, n) == <<Ev("return", 0, eng.at, r, n)>>

\* ---------------------------------------------------------------- actions

\* Bounded::exec: the call, clear, and for an anchored program the first
\* (and only) backtrack call.
Exec(prog, context, matches, start, end) ==
    /\ b.pc = "idle"
    /\ b' = exec(b.m, prog, matches, context, start, end)
    /\ args' = [prog |-> prog, context |-> context, matches |-> matches,
                start |-> start, end |-> end,
                found |-> Found(b.m, prog, context)]
    /\ trace' = IF b'.pc = "backtrack"
                THEN <<Ev("backtrack", 0, b'.at, FALSE, Len(b'.m.jobs))>>
                ELSE <<>>
    /\ UNCHANGED <<se, key, pair>>

\* exec_: the scan loop finds no further literal prefix and breaks.
ExecBreak ==
    /\ b.pc = "loop"
    /\ b.prog.prefixes # {}
    /\ prefix_at(b.context, b.prog.prefixes, b.at) = <<>>
    /\ b' = exec_loop(b)
    /\ UNCHANGED <<args, trace, se, key, pair>>

\* exec_: the scan loop calls backtrack at the next start position.
ExecLoop ==
    /\ b.pc = "loop"
    /\ b.prog.prefixes # {} =>
           prefix_at(b.context, b.prog.prefixes, b.at) # <<>>
    /\ b' = exec_loop(b)
    /\ trace' = Append(trace,
                       Ev("backtrack", 0, b'.at, FALSE, Len(b'.m.jobs)))
    /\ UNCHANGED <<args, se, key, pair>>

\* backtrack: a job is popped and handed to step.
BacktrackPop ==
    /\ b.pc = "backtrack"
    /\ b.m.jobs # <<>>
    /\ b' = backtrack_pop(b)
    /\ trace' = Append(trace,
                       Ev("pop", b'.ip, b'.sat, FALSE, Len(b'.m.jobs)))
    /\ UNCHANGED <<args, se, key, pair>>

\* backtrack: the stack is empty; backtrack returns and exec_ goes on.
BacktrackExit ==
    /\ b.pc = "backtrack"
    /\ b.m.jobs = <<>>
    /\ b' = backtrack_exit(b)
    /\ trace' = trace \o Returned(b, b.bt_matched, Len(b'.m.jobs))
    /\ UNCHANGED <<args, se, key, pair>>

\* step: the state was visited before; the path fails.
StepVisited ==
    /\ b.pc = "step"
    /\ Visited(b)
    /\ b' = step(b)
    /\ trace' = Append(trace,
                       Ev("visited", b.ip, b.sat, FALSE, Len(b'.m.jobs)))
    /\ UNCHANGED <<args, se, key, pair>>

\* step: Match.  A single-pattern program returns from backtrack at once.
StepMatch ==
    /\ Dispatches(b, "Match")
    /\ b' = step(b)
    /\ trace' = Append(trace,
                       Ev("Match", b.ip, b.sat, TRUE, Len(b'.m.jobs)))
                \o (IF b'.pc # "backtrack"
                    THEN Returned(b, TRUE, Len(b'.m.jobs)) ELSE <<>>)
    /\ UNCHANGED <<args, se, key, pair>>

\* step: Split.
StepSplit ==
    /\ Dispatches(b, "Split")
    /\ b' = step(b)
    /\ trace' = Append(trace,
                       Ev("Split", b.ip, b.sat, TRUE, Len(b'.m.jobs)))
    /\ UNCHANGED <<args, se, key, pair>>

\* step: Zero.
StepZero ==
    /\ Dispatches(b, "Zero")
    /\ b' = step(b)
    /\ trace' = Append(trace,
                       Ev("Zero", b.ip, b.sat, b'.pc = "step",
                          Len(b'.m.jobs)))
    /\ UNCHANGED <<args, se, key, pair>>

\* step: One.
StepOne ==
    /\ Dispatches(b, "One")
    /\ b' = step(b)
    /\ trace' = Append(trace,
                       Ev("One", b.ip, b.sat, b'.pc = "step",
                          Len(b'.m.jobs)))
    /\ UNCHANGED <<args, se, key, pair>>

\* step: Interval.
StepInterval ==
    /\ Dispatches(b, "Interval")
    /\ b' = step(b)
    /\ trace' = Append(trace,
                       Ev("Interval", b.ip, b.sat, b'.pc = "step",
                          Len(b'.m.jobs)))
    /\ UNCHANGED <<args, se, key, pair>>

\* exec has returned: the Bounded value is dropped, the cache stays as the
\* call left it.
Drop ==
    /\ b.pc = "done"
    /\ b' = Idle(b.m)
    /\ args' = NoArgs
    /\ trace' = <<>>
    /\ UNCHANGED <<se, key, pair>>

\* The engine's own steps, whatever started it.
Run ==
    \/ ExecBreak
    \/ ExecLoop
    \/ BacktrackPop
    \/ BacktrackExit
    \/ StepVisited
    \/ StepMatch
    \/ StepSplit
    \/ StepZero
    \/ StepOne
    \/ StepInterval

\* One exec call on a fresh cache, for every program, text, buffer and range.
ExecAny ==
    /\ b.pc = "idle"
    /\ \E prog \in Programs, context \in Inputs, matches \in Buffers :
           \E start \in 0..Len(context), end \in 0..Len(context) :
               Exec(prog, context, matches, start, end)

Next == ExecAny \/ Run

Spec == Init /\ [][Next]_vars

\* One exec call run under the scheduling of a sequential program: a call
\* in progress takes its next step.  The programs are those with cycles that
\* consume no input, and one for every kind of step; the history is cut
\* off at MaxSteps entries, far above what any of these calls needs.
LivePrograms ==
    {ProgStar, ProgEmptyLoop, ProgSelfSplit, ProgZeroLoop, ProgLazy,
     ProgPrefix, ProgSet}

ExecLive ==
    /\ b.pc = "idle"
    /\ \E prog \in LivePrograms, context \in Inputs :
           \E start \in 0..Len(context), end \in 0..Len(context) :
               Exec(prog, context, [i \in 1..MaxOut |-> FALSE], start, end)

Capped == Len(trace) < MaxSteps

RunLive ==
    \/ Capped /\ ExecBreak
    \/ Capped /\ ExecLoop
    \/ Capped /\ BacktrackPop
    \/ Capped /\ BacktrackExit
    \/ Capped /\ StepVisited
    \/ Capped /\ StepMatch
    \/ Capped /\ StepSplit
    \/ Capped /\ StepZero
    \/ Capped /\ StepOne
    \/ Capped /\ StepInterval

NextLive == ExecLive \/ RunLive

SpecLive == Init /\ [][NextLive]_vars /\ WF_vars(RunLive)

\* Any number of exec calls, one after the other, on one and the same cache:
\* each call may bring another program, text, buffer and range.
ReusePrograms == {ProgStar, ProgAnchored, ProgPrefix, ProgSet3, ProgLong}

ExecReuse ==
    /\ b.pc = "idle"
    /\ \E prog \in ReusePrograms, context \in Inputs, matches \in Buffers :
           \E start \in 0..Len(context), end \in 0..Len(context) :
               Exec(prog, context, matches, start, end)

NextReuse == ExecReuse \/ Drop \/ Run

SpecReuse == Init /\ [][NextReuse]_vars

\* should_exec called once, in any build, on instruction counts and text
\* lengths around the limit of 8 * MAX_SIZE_BYTES state bits and around the
\* ends of usize.
NumInsts ==
    {Nat256(n) : n \in {0, 1, 2, 3, 1000, 2048, 65536, 2097152, 2097153}}
        \cup {Pow2(32)}

TextLens ==
    {Nat256(n) : n \in {0, 1, 1000, 1023, 1024, 65535, 699050, 2097151,
                        2097152}}
        \cup {UsizeMax(32), UsizeMax(64)}

InitShould ==
    /\ b = Idle(CacheNew)
    /\ pair = NoPair
    /\ args = NoArgs
    /\ trace = <<>>
    /\ key = NoKey
    /\ \E build \in Builds :
           \E n \in {x \in NumInsts : IsUsize(x, build.bits)},
              t \in {x \in TextLens : IsUsize(x, build.bits)} :
               se = [NoCall EXCEPT !.pc = "call", !.num_insts = n,
                                   !.text_len = t, !.build = build]

ShouldExec ==
    /\ se.pc = "call"
    /\ se' = [se EXCEPT !.pc = "done",
                        !.ret = should_exec(se.num_insts, se.text_len,
                                            se.build)]
    /\ UNCHANGED <<b, args, trace, key, pair>>

\* should_exec admitted the program and the text: exec is called on them
\* and clear sizes the bitset.
ClearSizes ==
    /\ se.pc = "done"
    /\ se.ret = "true"
    /\ se' = [se EXCEPT !.pc = "cleared",
                        !.words = visited_len_usize(se.num_insts,
                                                    se.text_len, se.build)]
    /\ UNCHANGED <<b, args, trace, key, pair>>

NextShould == ShouldExec \/ ClearSizes

SpecShould == InitShould /\ [][NextShould]_vars

\* The head of has_visited run once, in any build, on instruction indices,
\* text lengths and positions up to and beyond what 32 bits hold.
KeyIps == {Nat256(n) : n \in {0, 1, 3, 65535, 65536, 65537}} \cup {Pow2(32)}
KeyLens == {Nat256(n) : n \in {0, 1, 2, 65534, 65535, 65536}} \cup {Pow2(31)}
KeyAts(len) == {x \in {Nat256(0), Nat256(1), len} : NatLe(x, len)}

InitKey ==
    /\ b = Idle(CacheNew)
    /\ pair = NoPair
    /\ args = NoArgs
    /\ trace = <<>>
    /\ se = NoCall
    /\ \E build \in Builds :
           \E ip \in {x \in KeyIps : IsUsize(x, build.bits)},
              len \in {x \in KeyLens : IsUsize(x, build.bits)} :
               \E at \in KeyAts(len) :
                   key = [NoKey EXCEPT !.pc = "call", !.ip = ip, !.len = len,
                                       !.at = at, !.build = build]

VisitedProbe ==
    /\ key.pc = "call"
    /\ key' = [key EXCEPT !.pc = "done",
                          !.ret = visited_probe(key.ip, key.len, key.at,
                                                key.build)]
    /\ UNCHANGED <<b, args, trace, se, pair>>

NextKey == VisitedProbe

SpecKey == InitKey /\ [][NextKey]_vars

\* The engine run by itself from the state eng to the return of exec: the
\* control flow of exec_, backtrack and step (backtrack.rs:139-233).
Advance(eng) ==
    CASE eng.pc = "loop" -> exec_loop(eng)
      [] eng.pc = "backtrack" ->
            IF eng.m.jobs = <<>> THEN backtrack_exit(eng)
            ELSE backtrack_pop(eng)
      [] eng.pc = "step" -> step(eng)

RECURSIVE RunToEnd(_)
RunToEnd(eng) == IF eng.pc = "done" THEN eng ELSE RunToEnd(Advance(eng))

\* exec with the arguments a on a cache fresh from Cache::new.
ExecAlone(a) ==
    RunToEnd(exec(CacheNew, a.prog, a.matches, a.context, a.start, a.end))

\* Two exec runs on one program: the program is built once and both
\* Bounded values hold a shared reference to it (backtrack.rs:56); each run
\* has a cache of its own from Cache::new, its own text, range and output
\* buffer.  The runs start and take their steps in any order.
PairPrograms == {ProgEmptyLoop, ProgPrefix, ProgSet}

\* The cache whose exclusive borrow run i holds.
CacheOfFirst(i) == 1

\* backtrack.rs:58  m: &'m mut Cache: the cache whose exclusive borrow run
\* i holds is its own.
CacheOf(i) == i

InitPair ==
    /\ b = Idle(CacheNew)
    /\ args = NoArgs
    /\ trace = <<>>
    /\ se = NoCall
    /\ key = NoKey
    /\ \E prog \in PairPrograms :
           pair = [prog |-> prog, given |-> prog,
                   cache |-> <<CacheNew, CacheNew>>,
                   call |-> <<NoArgs, NoArgs>>,
                   run |-> <<Idle(CacheNew), Idle(CacheNew)>>,
                   mixed |-> FALSE]

\* The Bounded value of run i: its locals, the shared program and the cache
\* it borrows.
Bounded(i) ==
    [pair.run[i] EXCEPT !.prog = IF pair.run[i].pc = "idle" THEN @
                                 ELSE pair.prog,
                        !.m = pair.cache[CacheOf(i)]]

\* The other run is between its call and its return.
OtherRunning(i) == pair.run[3 - i].pc \notin {"idle", "done"}

\* Run i has made the step that leaves its Bounded value as eng: the cache
\* it borrows and the program it refers to are as the step left them.
PairAfter(i, eng) ==
    [pair EXCEPT !.prog = eng.prog,
                 !.cache[CacheOf(i)] = eng.m,
                 !.run[i] = eng,
                 !.mixed = @ \/ OtherRunning(i)]

\* Run i calls exec on the shared program.
PairExec(i) ==
    /\ pair.run[i].pc = "idle"
    /\ \E context \in Inputs : \E start \in 0..Len(context) :
           LET matches == [s \in 1..MaxOut |-> FALSE]
               end == Len(context)
           IN  /\ pair' = [PairAfter(i, exec(Bounded(i).m, pair.prog, matches,
                                             context, start, end))
                               EXCEPT !.call[i] =
                                   [NoArgs EXCEPT !.prog = pair.prog,
                                                  !.context = context,
                                                  !.matches = matches,
                                                  !.start = start,
                                                  !.end = end]]
    /\ UNCHANGED <<b, args, trace, se, key>>

\* Run i takes its next step.
PairStep(i) ==
    /\ pair.run[i].pc \notin {"idle", "done"}
    /\ pair' = PairAfter(i, Advance(Bounded(i)))
    /\ UNCHANGED <<b, args, trace, se, key>>

NextPair == \E i \in 1..2 : PairExec(i) \/ PairStep(i)

SpecPair == InitPair /\ [][NextPair]_vars

\* ------------------------------------------------- the claims' vocabulary

\* The instruction variants step dispatches on.
Ops == {"Match", "Split", "Zero", "One", "Interval"}

\* The indices of the history's entries of kind e, and of the dispatches.
Entries(e) == {i \in 1..Len(trace) : trace[i].e = e}
Dispatched == {i \in 1..Len(trace) : trace[i].e \in Ops}

\* The exec call in progress has returned.
Done == b.pc = "done"

SinglePattern(prog) == Len(prog.matches) = 1
Unanchored(prog) == ~prog.is_anchored_start
NoPrefixes(prog) == prog.prefixes = {}

\* Plain NFA reachability, with no memory of visited states: the states
\* <<ip, at>> one instruction transition away from state s.
NfaSucc(prog, context, s) ==
    LET inst == InstAt(prog, s[1])
        c == ContextIndex(context, s[2]).c
    IN  CASE inst.op = "Match" -> {}
          [] inst.op = "Split" -> {<<inst.goto1, s[2]>>, <<inst.goto2, s[2]>>}
          [] inst.op = "Zero" ->
                IF is_empty_match(context, s[2], inst.look)
                THEN {<<inst.goto, s[2]>>} ELSE {}
          [] inst.op = "One" ->
                IF c = inst.c THEN {<<inst.goto, s[2] + 1>>} ELSE {}
          [] inst.op = "Interval" ->
                IF inst.lo <= c /\ c <= inst.hi
                THEN {<<inst.goto, s[2] + 1>>} ELSE {}

\* The states reachable from the set S by any number of transitions.
RECURSIVE NfaReach(_, _, _)
NfaReach(prog, context, S) ==
    LET T == S \cup UNION {NfaSucc(prog, context, s) : s \in S}
    IN  IF T = S THEN S ELSE NfaReach(prog, context, T)

\* The slots of the Match instructions reachable from instruction ip at
\* position p.
NfaSlots(prog, context, ip, p) ==
    {InstAt(prog, s[1]).slot :
        s \in {t \in NfaReach(prog, context, {<<ip, p>>}) :
                  InstAt(prog, t[1]).op = "Match"}}

\* The instruction every backtrack call starts from (backtrack.rs:173).
InitialIp == 0

\* ----------------------------------------------------------------- claims

\* C1: for a single-pattern, unanchored program without literal prefixes and
\* a range start <= end <= len(input), exec returns true if and only if some
\* position p in start..end has an NFA path from the initial instruction at
\* p to a Match instruction.
C1_ExecAgreesWithNfa ==
    (/\ Done
     /\ SinglePattern(args.prog)
     /\ Unanchored(args.prog)
     /\ NoPrefixes(args.prog)
     /\ args.start <= args.end)
    => (b.ret <=> \E p \in args.start..args.end :
                     NfaSlots(args.prog, args.context, InitialIp, p) # {})

\* C1's case: such a search gave true from a later start position, after a
\* state visited from an earlier one had cut a path.
C1_Witness ==
    /\ Done
    /\ SinglePattern(args.prog)
    /\ Unanchored(args.prog)
    /\ NoPrefixes(args.prog)
    /\ args.start <= args.end
    /\ b.ret
    /\ Cardinality(Entries("backtrack")) > 1
    /\ Entries("visited") # {}

\* C2: within one exec call every pair (ip, at) is dispatched at most once,
\* over all the start positions tried, so there are at most m * (n + 1)
\* dispatches for m instructions and a text of length n.
C2_DispatchedOnce ==
    /\ \A i, j \in Dispatched :
           (trace[i].ip = trace[j].ip /\ trace[i].at = trace[j].at) => i = j
    /\ Cardinality(Dispatched)
           <= ProgLen(args.prog) * (Len(args.context) + 1)

\* C2's case: a state dispatched under one start position is met again
\* under a later one and is not dispatched a second time.
C2_Witness ==
    \E v \in Entries("visited") : \E d \in Dispatched : \E c \in Entries("backtrack") :
        /\ d < c /\ c < v
        /\ trace[d].ip = trace[v].ip
        /\ trace[d].at = trace[v].at

\* C3: what exec returns and the flags it leaves depend on the program, the
\* text, the range and the buffer handed in, and not on what the cache held:
\* after any earlier calls on the same cache (other programs and texts, a
\* longer or shorter bitset, jobs left by an early return) the call ends as
\* it ends on a fresh cache.
C3_CacheReuseSameResult ==
    Done => /\ b.ret = ExecAlone(args).ret
            /\ b.matches = ExecAlone(args).matches

\* C3's case: a call has returned that found jobs on the stack, set bits in
\* the bitset and more words than it needs, left by a call on another
\* program.
C3_Witness ==
    /\ Done
    /\ args.found = [jobs |-> TRUE, bits |-> TRUE, words |-> "more"]
    /\ b.ret

\* C4: in an unanchored search with a single-pattern program, as soon as a
\* backtrack call returns true exec returns true and no later start position
\* is tried; the position of that call is the smallest of the positions
\* tried from which the NFA reaches a Match.
C4_SinglePatternStopsAtFirst ==
    (SinglePattern(args.prog) /\ Unanchored(args.prog)) =>
        /\ \A i \in Entries("return") :
               trace[i].r => (i = Len(trace) /\ Done /\ b.ret)
        /\ (Done /\ b.ret) =>
               \E c \in Entries("backtrack") :
                   /\ NfaSlots(args.prog, args.context, InitialIp,
                               trace[c].at) # {}
                   /\ \A d \in Entries("backtrack") \ {c} :
                          /\ d < c
                          /\ trace[d].at < trace[c].at
                          /\ NfaSlots(args.prog, args.context, InitialIp,
                                      trace[d].at) = {}

\* C4's case: the search returned true at its second or later start
\* position, with positions left in the range from which a Match is
\* reachable too and which were never tried.
C4_Witness ==
    /\ Done
    /\ SinglePattern(args.prog)
    /\ Unanchored(args.prog)
    /\ b.ret
    /\ Cardinality(Entries("backtrack")) > 1
    /\ \E p \in (b.at + 1)..args.end :
           NfaSlots(args.prog, args.context, InitialIp, p) # {}

\* C5: when the program is anchored at the start, exec calls backtrack
\* exactly once, at the start position it was given, and returns what that
\* call returned, whatever the end of the range and the literal prefixes.
C5_AnchoredOneCall ==
    args.prog.is_anchored_start =>
        /\ Entries("backtrack") \subseteq {1}
        /\ \A c \in Entries("backtrack") : trace[c].at = args.start
        /\ Cardinality(Entries("return")) <= 1
        /\ Done <=> Entries("return") # {}
        /\ Done => /\ Entries("backtrack") = {1}
                   /\ trace[Len(trace)].e = "return"
                   /\ b.ret = trace[Len(trace)].r
                   /\ b.ret <=> Entries("Match") # {}

\* C5's case: an anchored program with a literal prefix failed at a start
\* position before the end of the range, and the prefix occurs, and the
\* program matches, at a later position of the range.
C5_Witness ==
    /\ Done
    /\ args.prog.is_anchored_start
    /\ args.prog.prefixes # {}
    /\ ~b.ret
    /\ \E p \in (args.start + 1)..args.end :
           /\ prefix_at(args.context, args.prog.prefixes, args.start) = <<p>>
           /\ NfaSlots(args.prog, args.context, InitialIp, p) # {}

\* C6: for a regex set of k > 1 patterns without literal prefixes, searched
\* unanchored from 0 to the length of the text with a buffer of at least k
\* flags that are all false, after exec flag s is true if and only if some
\* position of the text has an NFA path from the initial instruction to
\* Match(s).
C6_SetFlagsAgreeWithNfa ==
    (/\ Done
     /\ Len(args.prog.matches) > 1
     /\ Unanchored(args.prog)
     /\ NoPrefixes(args.prog)
     /\ args.start = 0
     /\ args.end = Len(args.context)
     /\ Len(args.matches) >= Len(args.prog.matches)
     /\ \A i \in 1..Len(args.matches) : ~args.matches[i])
    => \A s \in 0..(Len(b.matches) - 1) :
           b.matches[s + 1] <=>
               \E p \in 0..Len(args.context) :
                   s \in NfaSlots(args.prog, args.context, InitialIp, p)

\* C6's case: such a search set one flag from the first start position and
\* another from a later one only, and met states visited before on the way.
C6_Witness ==
    /\ Done
    /\ Len(args.prog.matches) > 1
    /\ Unanchored(args.prog)
    /\ NoPrefixes(args.prog)
    /\ args.start = 0
    /\ args.end = Len(args.context)
    /\ Len(args.matches) >= Len(args.prog.matches)
    /\ \A i \in 1..Len(args.matches) : ~args.matches[i]
    /\ Entries("visited") # {}
    /\ \E s, t \in 0..(Len(b.matches) - 1) :
           /\ b.matches[s + 1] /\ b.matches[t + 1]
           /\ s \in NfaSlots(args.prog, args.context, InitialIp, 0)
           /\ \A p \in 0..Len(args.context) :
                  t \in NfaSlots(args.prog, args.context, InitialIp, p)
                      => p > 0

\* The entry that pops the job pushed by the Split dispatched at entry i:
\* the first later pop that takes the stack below its height after i.
SplitPop(i) ==
    {j \in Entries("pop") :
        /\ j > i
        /\ trace[j].n = trace[i].n - 1
        /\ \A k \in (i + 1)..(j - 1) : trace[k].n >= trace[i].n}

\* The Split dispatched at entry i pushed one job, (goto2, at), and the path
\* went on at (goto1, at).
SplitPushesOne(i) ==
    LET inst == InstAt(args.prog, trace[i].ip) IN
    /\ trace[i].n = trace[i - 1].n + 1
    /\ IF i < Len(trace)
       THEN /\ trace[i + 1].e \in Ops \cup {"visited"}
            /\ trace[i + 1].ip = inst.goto1
            /\ trace[i + 1].at = trace[i].at
       ELSE /\ b.pc = "step"
            /\ b.ip = inst.goto1
            /\ b.sat = trace[i].at
            /\ b.m.jobs[Len(b.m.jobs)] = Job(inst.goto2, trace[i].at)

\* The job of the Split at entry i is popped as (goto2, at), after every job
\* pushed since was popped.
SplitPoppedLast(i) ==
    LET inst == InstAt(args.prog, trace[i].ip) IN
    \A j \in SplitPop(i) :
        /\ trace[j].ip = inst.goto2
        /\ trace[j].at = trace[i].at
        /\ \A k \in Entries("Split") :
               (i < k /\ k < j) => \E l \in SplitPop(k) : l < j

\* No path explored between the Split at entry i and the pop of its job
\* reached a Match.
ContinuationFailed(i) ==
    \A j \in SplitPop(i) : \A k \in Entries("Match") : ~(i < k /\ k < j)

\* The path explored last before the pop of the job of the Split at entry i
\* had come to its end: at a visited state, at an instruction that does not
\* match, or, in a regex set, at a Match.
ContinuationEnded(i) ==
    \A j \in SplitPop(i) :
        /\ \/ trace[j - 1].e = "visited"
           \/ trace[j - 1].e \in Ops /\ ~trace[j - 1].r
           \/ trace[j - 1].e = "Match"
        /\ SinglePattern(args.prog) =>
               \A k \in Entries("Match") : ~(i < k /\ k < j)

\* The states reachable from S through states outside V only.
RECURSIVE NfaReachOutside(_, _, _, _)
NfaReachOutside(prog, context, S, V) ==
    LET T == S \cup (UNION {NfaSucc(prog, context, s) : s \in S} \ V)
    IN  IF T = S THEN S ELSE NfaReachOutside(prog, context, T, V)

\* The states dispatched up to entry i.
VisitedBy(i) ==
    {<<trace[d].ip, trace[d].at>> : d \in {k \in Dispatched : k <= i}}

\* A Match is reachable from the goto1 of the Split at entry i through
\* states not visited when it was dispatched.
MatchAheadOfSplit(i) ==
    LET inst == InstAt(args.prog, trace[i].ip) IN
    \E s \in NfaReachOutside(args.prog, args.context,
                             {<<inst.goto1, trace[i].at>>} \ VisitedBy(i),
                             VisitedBy(i)) :
        InstAt(args.prog, s[1]).op = "Match"

\* With one pattern and a Match ahead of the Split at entry i, backtrack
\* returns true and the job of the Split is never popped.
SingleReturnsFirst(i) ==
    (SinglePattern(args.prog) /\ MatchAheadOfSplit(i)) =>
        /\ SplitPop(i) = {}
        /\ \A r \in Entries("return") : r > i => trace[r].r
        /\ Done => b.ret

\* C7, as claimed: a Split pushes exactly one job (goto2, at) and goes on
\* with goto1; the job is popped only after the goto1 continuation and every
\* job pushed during it were fully explored and failed; with one pattern
\* and a Match reachable through goto1 by states not yet visited, backtrack
\* returns true before the job is stepped.
C7_SplitAsClaimed ==
    \A i \in Entries("Split") :
        /\ SplitPushesOne(i)
        /\ SplitPoppedLast(i)
        /\ ContinuationFailed(i)
        /\ SingleReturnsFirst(i)

\* C7, as the code has it: the same, except that in a regex set the
\* continuation may have reached a Match, and set its flag, before the job
\* is popped; it failed in every case only with a single pattern.
C7_SplitPriority ==
    \A i \in Entries("Split") :
        /\ SplitPushesOne(i)
        /\ SplitPoppedLast(i)
        /\ ContinuationEnded(i)
        /\ SingleReturnsFirst(i)

\* C7's case: in a regex set the job of a Split was popped after another
\* Split dispatched in its continuation had its job popped, and after the
\* continuation had reached a Match.
C7_Witness ==
    \E i, k \in Entries("Split") : \E j \in SplitPop(i) : \E l \in SplitPop(k) :
        /\ i < k /\ l < j
        /\ \E m \in Entries("Match") : i < m /\ m < j

\* The state bits of the should_exec call, num_insts * (text_len + 1), and
\* the bytes of the bitset, ceil(bits / 32) * 4, as natural numbers.
StateBits == NatMul(se.num_insts, NatAdd(se.text_len, Nat256(1)))
BitsetBytes ==
    NatMul(NatDiv(NatAdd(StateBits, Nat256(BIT_SIZE - 1)), BIT_SIZE),
           Nat256(4))

\* C8: should_exec returns true if and only if
\* ceil(num_insts * (text_len + 1) / 32) * 4 <= 262144, that is, if and only
\* if num_insts * (text_len + 1) <= 2097152, and false otherwise.
C8_ShouldExecIffWithinLimit ==
    se.pc = "done" =>
        /\ se.ret \in {"true", "false"}
        /\ se.ret = "true" <=> NatLe(BitsetBytes, Nat256(MAX_SIZE_BYTES))
        /\ se.ret = "true" <=> NatLe(StateBits, Nat256(8 * MAX_SIZE_BYTES))

\* C9, as claimed: should_exec(1000, 1000) returns false.
C9_ShouldExec1000False ==
    (/\ se.pc = "done"
     /\ se.num_insts = Nat256(1000)
     /\ se.text_len = Nat256(1000))
    => se.ret = "false"

\* C9, as the code has it: should_exec(1000, 1000) returns true, 1001000
\* state bits taking 125128 bytes, under the ceiling of 262144.
C9_ShouldExec1000True ==
    (/\ se.pc = "done"
     /\ se.num_insts = Nat256(1000)
     /\ se.text_len = Nat256(1000))
    => /\ se.ret = "true"
       /\ NatEq(BitsetBytes, Nat256(125128))

\* C9's case: should_exec(1000, 1000) has returned.
C9_Witness ==
    /\ se.pc = "done"
    /\ se.num_insts = Nat256(1000)
    /\ se.text_len = Nat256(1000)

\* The slot of the Match dispatched at entry i.
SlotAt(i) == InstAt(args.prog, trace[i].ip).slot

\* C10: if exec returns false, no Match instruction was dispatched and the
\* output buffer is as it was handed in; if exec returns true, at least one
\* Match(slot) was dispatched, and the flag of every slot dispatched that
\* lies inside the buffer is true.
C10_ReturnAgreesWithFlags ==
    Done =>
        /\ ~b.ret => /\ Entries("Match") = {}
                     /\ b.matches = args.matches
        /\ b.ret => /\ Entries("Match") # {}
                    /\ \A i \in Entries("Match") :
                           SlotAt(i) < Len(b.matches)
                               => b.matches[SlotAt(i) + 1]

\* C10's case: exec returned true after it dispatched a Match whose flag
\* was false in the buffer handed in, and a Match whose slot lies beyond
\* the buffer.
C10_Witness ==
    /\ Done
    /\ b.ret
    /\ \E i, j \in Entries("Match") :
           /\ SlotAt(i) < Len(b.matches)
           /\ ~args.matches[SlotAt(i) + 1]
           /\ SlotAt(j) >= Len(b.matches)

\* C11: exec writes nothing but true into the output buffer: a flag that
\* was true when the call began is true, a flag whose Match was not
\* dispatched is as it was, the buffer keeps its length, and a Match whose
\* slot lies beyond the buffer writes nothing and still makes exec return
\* true.
C11_OnlyTrueIsWritten ==
    /\ Len(b.matches) = Len(args.matches)
    /\ \A i \in 1..Len(args.matches) :
           /\ args.matches[i] => b.matches[i]
           /\ (\A k \in Entries("Match") : SlotAt(k) # i - 1)
                  => b.matches[i] = args.matches[i]
    /\ (Done /\ \E k \in Entries("Match") : SlotAt(k) >= Len(b.matches))
           => b.ret

\* C11's case: exec returned true having dispatched only Matches whose slots
\* lie beyond the buffer, and the buffer, with a flag that was true before
\* the call, is as it was.
C11_Witness ==
    /\ Done
    /\ b.ret
    /\ Entries("Match") # {}
    /\ \A k \in Entries("Match") : SlotAt(k) >= Len(b.matches)
    /\ \E i \in 1..Len(args.matches) : args.matches[i]
    /\ b.matches = args.matches

\* The key of the has_visited call as a natural number,
\* ip * (len(input) + 1) + at, and the largest value 32 bits hold.
ExactKey == NatAdd(NatMul(key.ip, NatAdd(key.len, Nat256(1))), key.at)
U32Max == UsizeMax(32)

\* C12: when the key ip * (len(input) + 1) + at does not fit in 32 bits the
\* engine panics, and does not go on with a wrapped or truncated key.
C12_KeyBeyondU32Panics ==
    (key.pc = "done" /\ ~NatLe(ExactKey, U32Max)) => key.ret.panic

\* C13: in an unanchored search over a range start <= end, every position
\* at which backtrack is invoked lies in start..end, with literal prefixes
\* as without.
C13_BacktrackWithinRange ==
    (Unanchored(args.prog) /\ args.start <= args.end) =>
        \A c \in Entries("backtrack") :
            args.start <= trace[c].at /\ trace[c].at <= args.end

\* The positions of the backtrack calls so far, in order.
RECURSIVE CallsFrom(_)
CallsFrom(i) ==
    IF i > Len(trace) THEN <<>>
    ELSE (IF trace[i].e = "backtrack" THEN <<trace[i].at>> ELSE <<>>)
             \o CallsFrom(i + 1)

Calls == CallsFrom(1)

\* The entry of the dispatch of instruction ip at position at, if any.
DispatchOf(ip, at) ==
    {i \in Dispatched : trace[i].ip = ip /\ trace[i].at = at}

\* C14: for the unanchored program Split(One(a) Match(0), One(b) Match(0))
\* on "xba" searched from 0 to 3, exec calls backtrack at 0, where both
\* branches fail, then at 1, where the goto2 branch matches, returns true
\* with output[0] set, and calls backtrack at neither 2 nor 3.
C14_ScanXba ==
    (/\ Done
     /\ args.prog = ProgAlt
     /\ args.context = TextXba
     /\ args.start = 0
     /\ args.end = 3)
    => /\ Calls = <<0, 1>>
       /\ \A i \in DispatchOf(1, 0) \cup DispatchOf(2, 0) : ~trace[i].r
       /\ DispatchOf(1, 0) # {} /\ DispatchOf(2, 0) # {}
       /\ \A i \in DispatchOf(1, 1) : ~trace[i].r
       /\ \E i \in DispatchOf(2, 1) : \E j \in DispatchOf(3, 2) :
              /\ trace[i].r
              /\ j = i + 1
              /\ trace[j].e = "Match"
       /\ \A i \in Entries("return") : trace[i].r <=> i = Len(trace)
       /\ b.ret
       /\ Len(b.matches) > 0 => b.matches[1]

\* C14's case: that search has returned, on a buffer whose flag 0 was false.
C14_Witness ==
    /\ Done
    /\ args.prog = ProgAlt
    /\ args.context = TextXba
    /\ args.start = 0
    /\ args.end = 3
    /\ args.matches = <<FALSE>>

\* C15: for the anchored program Zero(StartText) Match(0) on the empty
\* text with start = end = 0, exec returns true and sets output[0].
C15_StartTextOnEmpty ==
    (/\ Done
     /\ args.prog = ProgStartText
     /\ args.context = <<>>
     /\ args.start = 0
     /\ args.end = 0)
    => /\ b.ret
       /\ Len(b.matches) > 0 => b.matches[1]
       /\ \E i \in Entries("Zero") : trace[i].r /\ trace[i].at = 0

\* C15's case: that call has returned, on a buffer whose flag 0 was false.
C15_Witness ==
    /\ Done
    /\ args.prog = ProgStartText
    /\ args.context = <<>>
    /\ args.start = 0
    /\ args.end = 0
    /\ args.matches = <<FALSE>>

\* C16: every backtrack call starts from the state (program.start, position
\* of the call): the job it pushes first, which is the job popped first,
\* carries the start instruction of the program, whatever its index.
C16_FirstJobAtProgramStart ==
    \A c \in Entries("backtrack") :
        IF c = Len(trace)
        THEN b.m.jobs[Len(b.m.jobs)] = Job(args.prog.start, trace[c].at)
        ELSE /\ trace[c + 1].e = "pop"
             /\ trace[c + 1].ip = args.prog.start
             /\ trace[c + 1].at = trace[c].at

\* The least number of 32-bit words that hold n bits.
WordsFor(n) == CHOOSE w \in 0..n : 32 * w >= n /\ 32 * (w - 1) < n

\* exec has just run clear: nothing else has happened but, for an anchored
\* program, the push of the first job.
JustCleared ==
    \/ b.pc = "loop" /\ trace = <<>>
    \/ b.pc = "backtrack" /\ Len(trace) = 1 /\ args.prog.is_anchored_start

\* C17: after clear, whatever the cache held before (a bitset shorter than,
\* as long as or longer than needed, bits set, jobs left on the stack), the
\* job stack is empty and the bitset has exactly ceil(m * (n + 1) / 32)
\* words, all zero, for m instructions and a text of length n.
C17_ClearResets ==
    JustCleared =>
        /\ b.m.jobs = IF b.pc = "loop" THEN <<>> ELSE <<Job(0, b.at)>>
        /\ Len(b.m.visited)
               = WordsFor(ProgLen(args.prog) * (Len(args.context) + 1))
        /\ \A i \in 1..Len(b.m.visited) : b.m.visited[i] = {}

\* C17's case: clear has run on a cache that held jobs, set bits and more
\* words than the call needs.
C17_Witness ==
    /\ JustCleared
    /\ b.pc = "loop"
    /\ args.found = [jobs |-> TRUE, bits |-> TRUE, words |-> "more"]

\* The keys whose bits are set in the bitset.
KeysSet(visited) ==
    UNION {{BIT_SIZE * (w - 1) + bit : bit \in visited[w]} :
              w \in 1..Len(visited)}

\* The key has_visited computed at entry i of the history.
KeyAt(i) == visited_key(args.context, trace[i].ip, trace[i].at)

\* C18: from the clear of an exec call to its end the visited keys only
\* grow: the bits set are those of all the states dispatched since the
\* clear, under whichever start position, and has_visited returns false
\* the first time it is called for a key and true every later time.
C18_VisitedOnlyGrows ==
    b.pc # "idle" =>
        /\ KeysSet(b.m.visited) = {KeyAt(d) : d \in Dispatched}
        /\ \A d \in Dispatched :
               \A i \in Dispatched \cup Entries("visited") :
                   KeyAt(i) = KeyAt(d) => d <= i
        /\ \A v \in Entries("visited") :
               \E d \in Dispatched : d < v /\ KeyAt(d) = KeyAt(v)

\* C18's case: the call has returned; a key set under one start position
\* was asked for again under a later one, has_visited returned true, and
\* the bit is still set.
C18_Witness ==
    /\ Done
    /\ \E v \in Entries("visited") : \E c \in Entries("backtrack") :
           /\ c < v
           /\ \E d \in Dispatched : d < c /\ KeyAt(d) = KeyAt(v)
           /\ KeyAt(v) \in KeysSet(b.m.visited)

\* C19: without literal prefixes an unanchored exec calls backtrack at
\* start, start + 1, ... in this order, one position at a time; over a range
\* start <= end it stops after the first call that returns true when the
\* program has one pattern, and otherwise after the call at end; over a
\* range start > end it makes the one call at start.
C19_ScanOneStepAtATime ==
    (Unanchored(args.prog) /\ NoPrefixes(args.prog)) =>
        /\ \A i \in 1..Len(Calls) : Calls[i] = args.start + i - 1
        /\ \A i \in Entries("return") :
               (trace[i].r /\ SinglePattern(args.prog)) => i = Len(trace)
        /\ (Done /\ args.start <= args.end) =>
               IF SinglePattern(args.prog) /\ b.ret
               THEN /\ trace[Len(trace)] = Ev("return", 0, b.at, TRUE,
                                              Len(b.m.jobs))
                    /\ Len(Calls) <= args.end - args.start + 1
               ELSE /\ Len(Calls) = args.end - args.start + 1
                    /\ b.ret <=> \E i \in Entries("return") : trace[i].r
        /\ (Done /\ args.start > args.end) => Calls = <<args.start>>

\* C19's case: a scan of three positions or more returned true for an
\* empty match at end, the last position tried, and at no position before.
C19_Witness ==
    /\ Done
    /\ Unanchored(args.prog)
    /\ NoPrefixes(args.prog)
    /\ b.ret
    /\ Len(Calls) >= 3
    /\ Calls[Len(Calls)] = args.end
    /\ \A i \in Entries("Match") : trace[i].at = args.end
    /\ \E i \in Entries("return") : ~trace[i].r

\* The positions at or after p where a literal prefix of the program
\* occurs in the text.
Candidates(p) ==
    {q \in p..Len(args.context) :
        \E lit \in args.prog.prefixes : OccursAt(args.context, lit, q)}

\* exec_ left its loop because the searcher found no candidate: the position
\* it stands at is not one backtrack was called at.
SearcherEndedScan ==
    Done /\ (Calls = <<>> \/ b.at # Calls[Len(Calls)])

\* C20: in an unanchored search with literal prefixes every backtrack call
\* is at the first candidate the searcher finds at or after the current
\* position, which is start for the first call and one past the position
\* of the call before for the others, so that the positions called at
\* increase strictly; when the searcher finds no candidate the loop stops
\* and exec returns whether any call so far returned true.
C20_PrefixScan ==
    (Unanchored(args.prog) /\ ~NoPrefixes(args.prog)) =>
        /\ \A i \in 1..Len(Calls) :
               LET from == IF i = 1 THEN args.start ELSE Calls[i - 1] + 1
               IN  /\ Calls[i] \in Candidates(from)
                   /\ \A q \in Candidates(from) : Calls[i] <= q
        /\ \A i \in 2..Len(Calls) : Calls[i - 1] < Calls[i]
        /\ SearcherEndedScan =>
               /\ Candidates(b.at) = {}
               /\ b.at = IF Calls = <<>> THEN args.start
                         ELSE Calls[Len(Calls)] + 1
               /\ b.ret <=> \E i \in Entries("return") : trace[i].r
        /\ (Done /\ ~SearcherEndedScan) =>
               \/ SinglePattern(args.prog) /\ b.ret
               \/ b.at >= args.end

\* C20's case: the searcher skipped the start position, two calls or more
\* were made, one of them returned true, and then the searcher found no
\* candidate and exec returned true.
C20_Witness ==
    /\ Unanchored(args.prog)
    /\ ~NoPrefixes(args.prog)
    /\ SearcherEndedScan
    /\ Len(Calls) >= 2
    /\ Calls[1] > args.start
    /\ b.ret

\* The program has a cycle of instructions that consumes no input.
Cyclic(prog) == prog \in {ProgEmptyLoop, ProgSelfSplit, ProgZeroLoop}

\* C21: every exec call, once made, returns, whatever cycles of Splits and
\* Zeros without input the program has.
C21_ExecTerminates == (b.pc # "idle") ~> Done

\* C21's case: a call on a program with such a cycle has returned, after
\* has_visited cut the cycle: a state was met again at the position it had
\* been dispatched at, within the same backtrack call.
C21_Witness ==
    /\ Done
    /\ Cyclic(args.prog)
    /\ \E v \in Entries("visited") : \E d \in Dispatched :
           /\ d < v
           /\ KeyAt(d) = KeyAt(v)
           /\ \A c \in Entries("backtrack") : ~(d < c /\ c < v)

\* The instruction step is about to dispatch consumes the element at the
\* position: a One whose character is there, an Interval that has it.
Consumes(eng) ==
    LET inst == CurInst(eng)
        c == ContextIndex(eng.context, eng.sat).c
    IN  \/ inst.op = "One" /\ inst.c = c
        \/ inst.op = "Interval" /\ IntervalHas(inst, c)

\* The instruction step is about to dispatch fails: a One or an Interval
\* whose test fails, a Zero whose assertion does not hold.
Fails(eng) ==
    LET inst == CurInst(eng) IN
    \/ inst.op \in {"One", "Interval"} /\ ~Consumes(eng)
    \/ /\ inst.op = "Zero"
       /\ ~is_empty_match(eng.context, eng.sat, inst.look)

StepFrame ==
    b.pc = "step" =>
        /\ (b'.pc = "step" /\ b'.sat # b.sat) => ~Visited(b) /\ Consumes(b)
        /\ (~Visited(b) /\ Consumes(b)) =>
               b'.pc = "step" /\ b'.sat = b.sat + 1
        /\ (~Visited(b) /\ CurInst(b).op \in {"Zero", "Split"}
                /\ ~Fails(b)) =>
               b'.pc = "step" /\ b'.sat = b.sat
        /\ (~Visited(b) /\ Fails(b)) =>
               /\ b'.pc # "step"
               /\ b'.m.jobs = b.m.jobs
               /\ b'.matches = b.matches

\* C22: within step the position moves only on a One or an Interval that
\* succeeds, and then by one; a Zero that holds and a Split go on at the
\* same position; a One, Interval or Zero that fails ends the path with the
\* job stack and the flags as they were.
C22_StepFrame == [][StepFrame]_vars

\* C22's case: in one call a One or an Interval succeeded and the next
\* state was dispatched one position on, a Split and a Zero went on at their
\* position, and a One or an Interval and a Zero failed.
C22_Witness ==
    /\ \E i \in Dispatched :
           /\ trace[i].e \in {"One", "Interval"} /\ trace[i].r
           /\ i < Len(trace) /\ trace[i + 1].at = trace[i].at + 1
    /\ \E i \in Entries("Split") \cup Entries("Zero") :
           /\ trace[i].r
           /\ i < Len(trace) /\ trace[i + 1].at = trace[i].at
    /\ \E i \in Entries("Zero") : ~trace[i].r /\ trace[i].n = trace[i - 1].n
    /\ \E i \in Entries("One") \cup Entries("Interval") :
           ~trace[i].r /\ trace[i].n = trace[i - 1].n

\* The entry of the backtrack call that entry j belongs to.
CallOf(j) ==
    CHOOSE c \in Entries("backtrack") :
        c < j /\ \A d \in Entries("backtrack") : d < j => d <= c

\* The Match entries of the backtrack call that returns at entry j.
MatchesBefore(j) == {i \in Entries("Match") : CallOf(j) < i /\ i < j}

\* C23: a backtrack call on a regex set returns only with the stack empty,
\* and true exactly when a step of the call signalled a match; on a single
\* pattern the call returns true right after its first Match, which ends
\* exec, and false with the stack empty when no step matched.
C23_BacktrackReturn ==
    \A j \in Entries("return") :
        IF Len(args.prog.matches) > 1
        THEN /\ trace[j].n = 0
             /\ trace[j].r <=> MatchesBefore(j) # {}
        ELSE IF MatchesBefore(j) # {}
             THEN MatchesBefore(j) = {j - 1} /\ trace[j].r /\ j = Len(trace)
             ELSE ~trace[j].r /\ trace[j].n = 0

\* C23's case for a set: a backtrack call went on after a Match, popped
\* further jobs, met a second Match and returned true with the stack empty.
C23_Witness ==
    /\ Len(args.prog.matches) > 1
    /\ \E j \in Entries("return") :
           /\ trace[j].r
           /\ \E i \in MatchesBefore(j) : \E k \in MatchesBefore(j) :
                  /\ i < k
                  /\ trace[i].n > 0
                  /\ \E q \in Entries("pop") : i < q /\ q < k

\* C23's case for a single pattern: the call returned at its first Match
\* and left jobs on the stack.
SingleLeavesJobs ==
    /\ Done
    /\ Len(args.prog.matches) = 1
    /\ trace # <<>>
    /\ trace[Len(trace)].e = "return"
    /\ trace[Len(trace)].r
    /\ trace[Len(trace)].n > 0

PlainRange ==
    /\ b.pc \notin {"idle"}
    /\ NoPrefixes(args.prog)
    /\ args.start <= args.end
    /\ args.end <= Len(args.context)

\* The state (ip, at) lies inside the program and the text, its key below
\* m * (n + 1) and the word of its key inside the bitset.
InBitset(ip, at) ==
    LET m == ProgLen(args.prog)
        n == Len(args.context)
        k == visited_key(args.context, ip, at)
    IN  /\ ip < m
        /\ at <= n
        /\ k < m * (n + 1)
        /\ k \div BIT_SIZE < Len(b.m.visited)

\* The states the call has at hand: those of the jobs on the stack and
\* those step has looked at.
AtHand ==
    {<<b.m.jobs[j].ip, b.m.jobs[j].at>> : j \in 1..Len(b.m.jobs)}
        \cup {<<trace[i].ip, trace[i].at>> :
                 i \in Dispatched \cup Entries("visited")}

\* C25: over a plain range every job on the stack and every state step
\* looks at has ip < m and at <= n, a key below m * (n + 1) whose word is
\* inside the bitset, and no other state at hand has the same key.
C25_StatesInRange ==
    PlainRange =>
        /\ \A j \in 1..Len(b.m.jobs) :
               InBitset(b.m.jobs[j].ip, b.m.jobs[j].at)
        /\ b.pc = "step" =>
               /\ InBitset(b.ip, b.sat)
               /\ \A s \in AtHand :
                      visited_key(args.context, s[1], s[2])
                          = visited_key(args.context, b.ip, b.sat)
                      => s = <<b.ip, b.sat>>

\* C25's case: step looks at the last instruction at the end of the text,
\* the state with the greatest key m * (n + 1) - 1, which falls into the
\* second word of the bitset, while a job waits on the stack.
C25_Witness ==
    /\ PlainRange
    /\ b.pc = "step"
    /\ b.ip = ProgLen(args.prog) - 1
    /\ b.sat = Len(args.context)
    /\ b.sat > 0
    /\ visited_key(args.context, b.ip, b.sat) \div BIT_SIZE = 1
    /\ b.m.jobs # <<>>

\* C26: every backtrack call starts on an empty stack (after its push the
\* stack holds its first job and nothing else), also in a call that found
\* jobs in the cache: a backtrack call that is followed by another one
\* returned with the stack empty, and one that returned with jobs left was
\* the last thing its exec call did.
C26_BacktrackStartsEmpty ==
    /\ b.pc = "loop" => b.m.jobs = <<>>
    /\ \A c \in Entries("backtrack") : trace[c].n = 1
    /\ \A j \in Entries("return") :
           trace[j].n > 0 => j = Len(trace) /\ Done

\* C26's case: a call that found jobs left in the cache by the early return
\* of the call before has made a backtrack call that drained the stack and
\* a second backtrack call after it.
C26_Witness ==
    /\ args.found.jobs
    /\ \E c \in Entries("backtrack") : \E j \in Entries("return") :
           j < c /\ trace[j].n = 0 /\ \E q \in Entries("Split") : q < j

\* C27: when should_exec is true of the program length and the text length
\* exec is then called with, clear sizes the bitset without a panic to at
\* most 65536 words, that is, at most MAX_SIZE_BYTES bytes, and to the very
\* word count should_exec computed.
C27_AdmittedBitsetWithinLimit ==
    se.pc = "cleared" =>
        /\ ~se.words.panic
        /\ NatLe(se.words.val, Nat256(65536))
        /\ NatLe(NatMul(se.words.val, Nat256(4)), Nat256(MAX_SIZE_BYTES))
        /\ NatEq(se.words.val,
                 admission_words(se.num_insts, se.text_len, se.build))

\* C27's case: a program and a text at the limit, admitted, for which clear
\* asks for all of the 65536 words.
C27_Witness ==
    /\ se.pc = "cleared"
    /\ NatEq(se.words.val, Nat256(65536))
    /\ NatEq(StateBits, Nat256(2097152))

\* The number of jobs on the stack before entry i, and the number of jobs
\* the action of entry i pushed.
HeightBefore(i) == IF i = 1 THEN 0 ELSE trace[i - 1].n
PushedAt(i) ==
    IF trace[i].n > HeightBefore(i) THEN trace[i].n - HeightBefore(i) ELSE 0

\* The number of jobs pushed up to entry i.
RECURSIVE PushedUpTo(_)
PushedUpTo(i) == IF i = 0 THEN 0 ELSE PushedAt(i) + PushedUpTo(i - 1)

\* The Split states dispatched so far, and the Split instructions of prog.
SplitStates == {<<trace[i].ip, trace[i].at>> : i \in Entries("Split")}
Splits(prog) == {i \in 0..(ProgLen(prog) - 1) : InstAt(prog, i).op = "Split"}

\* C28: within one exec call the jobs pushed so far are at most the
\* backtrack calls made plus the distinct Split states dispatched, and the
\* stack holds at most (number of Split instructions) * (n + 1) + 1 jobs.
C28_PushesBounded ==
    b.pc # "idle" =>
        /\ PushedUpTo(Len(trace))
               <= Cardinality(Entries("backtrack")) + Cardinality(SplitStates)
        /\ Len(b.m.jobs)
               <= Cardinality(Splits(args.prog)) * (Len(args.context) + 1) + 1

\* C28's case: after two backtrack calls and Splits dispatched at two
\* positions, three jobs are on the stack.
C28_Witness ==
    /\ b.pc # "idle"
    /\ Cardinality(Entries("backtrack")) >= 2
    /\ \E s \in SplitStates : \E t \in SplitStates : s[2] # t[2]
    /\ Len(b.m.jobs) >= 3

====
